---- MODULE Spec2Model ----
(***************************************************************************)
(* Model of the writer-assist plugin (src/main.ts): the command handlers,  *)
(* the prompt modals they suspend on, the settings tab and the pure        *)
(* helpers (shortenNotePath, getActiveCharNotes, section id handling).     *)
(*                                                                         *)
(* JavaScript strings are sequences of one-character strings.  The absent  *)
(* values null and undefined, the booleans and the "promise still pending" *)
(* marker are one-element sequences holding a multi-character token, so    *)
(* they can never be equal to a JavaScript string.  A TFile is identified  *)
(* by its path; its basename is computed from the path.                    *)
(***************************************************************************)
EXTENDS Integers, Sequences, FiniteSets, TLC

VARIABLES settings, saved, allNotes, contents, viewFile, editor,
          pc, targetNote, cap, modal, log, fin, fout, tab

vars == <<settings, saved, allNotes, contents, viewFile, editor,
          pc, targetNote, cap, modal, log, fin, fout, tab>>

----------------------------------------------------------------------------
(* Bounds of the model *)

MaxPools == 2
MaxMembers == 2
MaxSectionNotes == 2
MaxInvocations == 1
MaxIdLen == 3
MaxPoolsIn == 3
MaxMembersIn == 2
MaxVaultIn == 4
MaxDigits == 7

----------------------------------------------------------------------------
(* JavaScript values *)

Null == <<"null">>
Undefined == <<"undefined">>
True == <<"true">>
False == <<"false">>
Pending == <<"pending">>
EmptyStr == <<>>

Truthy(v) == v \notin {Null, Undefined, False, EmptyStr}

Min(a, b) == IF a < b THEN a ELSE b
Max(a, b) == IF a > b THEN a ELSE b

RECURSIVE Concat(_)
Concat(ss) == IF ss = <<>> THEN <<>> ELSE Head(ss) \o Concat(Tail(ss))

Range(s) == {s[i] : i \in 1..Len(s)}

(* String.prototype.slice(0, -n) *)
SliceEnd(s, n) == SubSeq(s, 1, Max(Len(s) - n, 0))

(* String.prototype.substring(a, b), zero-based, end exclusive *)
Substring(s, a, b) == SubSeq(s, Min(a, Len(s)) + 1, Min(b, Len(s)))

WhiteSpace == {" ", "\n", "\t"}

RECURSIVE trimEnd(_)
trimEnd(s) ==
    IF s # <<>> /\ s[Len(s)] \in WhiteSpace THEN trimEnd(SubSeq(s, 1, Len(s) - 1)) ELSE s

RECURSIVE trimStart(_)
trimStart(s) ==
    IF s # <<>> /\ Head(s) \in WhiteSpace THEN trimStart(Tail(s)) ELSE s

trim(s) == trimEnd(trimStart(s))

----------------------------------------------------------------------------
(* File index *)

LastIndexOf(s, c) ==
    LET hits == {i \in 1..Len(s) : s[i] = c}
    IN IF hits = {} THEN 0 ELSE CHOOSE i \in hits : \A j \in hits : j <= i

(* TFile.name: the path after its last "/" *)
FileName(path) == SubSeq(path, LastIndexOf(path, "/") + 1, Len(path))

(* TFile.basename: the name without its extension *)
basename(path) ==
    LET n == FileName(path)
        d == LastIndexOf(n, ".")
    IN IF d <= 1 THEN n ELSE SubSeq(n, 1, d - 1)

(* Vault.getFileByPath over the indexed files *)
getFileByPath(files, path) ==
    IF \E i \in 1..Len(files) : files[i] = path THEN path ELSE Null

----------------------------------------------------------------------------
(* shortenNotePath: the loop over vault.getMarkdownFiles() *)

RECURSIVE ShortenLoop(_, _, _, _)
ShortenLoop(note, notes, i, count) ==
    IF i > Len(notes) THEN basename(note)
    ELSE LET c == IF basename(notes[i]) = basename(note) THEN count + 1 ELSE count
         IN IF c > 1 THEN SliceEnd(note, 3)
            ELSE ShortenLoop(note, notes, i + 1, c)

(* shortenNotePath with the collision threshold off by one *)
RECURSIVE ShortenLoopLate(_, _, _, _)
ShortenLoopLate(note, notes, i, count) ==
    IF i > Len(notes) THEN basename(note)
    ELSE LET c == IF basename(notes[i]) = basename(note) THEN count + 1 ELSE count
         IN IF c > 2 THEN SliceEnd(note, 3)
            ELSE ShortenLoopLate(note, notes, i + 1, c)

shortenNotePathLate(note, notes) == ShortenLoopLate(note, notes, 1, 0)

shortenNotePath(note, notes) == ShortenLoop(note, notes, 1, 0)

----------------------------------------------------------------------------
(* getActiveCharNotes: a counting pass, then a filling pass *)

RECURSIVE CountActive(_, _)
CountActive(pools, i) ==
    IF i > Len(pools) THEN 0
    ELSE (IF pools[i].isEnabled THEN Len(pools[i].charNotes) ELSE 0)
         + CountActive(pools, i + 1)

RECURSIVE FillActive(_, _)
FillActive(pools, i) ==
    IF i > Len(pools) THEN <<>>
    ELSE (IF pools[i].isEnabled THEN pools[i].charNotes ELSE <<>>)
         \o FillActive(pools, i + 1)

(* getActiveCharNotes with a filling pass that forgets the enabled flag *)
RECURSIVE FillAll(_, _)
FillAll(pools, i) ==
    IF i > Len(pools) THEN <<>> ELSE pools[i].charNotes \o FillAll(pools, i + 1)

getActiveCharNotesAll(pools) ==
    IF CountActive(pools, 1) = 0 THEN <<>> ELSE FillAll(pools, 1)

getActiveCharNotes(pools) ==
    IF CountActive(pools, 1) = 0 THEN <<>> ELSE FillActive(pools, 1)

----------------------------------------------------------------------------
(* Section ids *)

Lower == {"a","b","c","d","e","f","g","h","i","j","k","l","m",
          "n","o","p","q","r","s","t","u","v","w","x","y","z"}
Upper == {"A","B","C","D","E","F","G","H","I","J","K","L","M",
          "N","O","P","Q","R","S","T","U","V","W","X","Y","Z"}
Digit == {"0","1","2","3","4","5","6","7","8","9"}

(* the class [a-zA-Z0-9-] *)
IdChars == Lower \cup Upper \cup Digit \cup {"-"}

(* the class [\s_] *)
SepChars == WhiteSpace \cup {"_"}

(* .replace(/[\s_]+/g, "-") *)
RECURSIVE ReplaceRuns(_)
ReplaceRuns(s) ==
    IF s = <<>> THEN <<>>
    ELSE IF Head(s) \in SepChars
         THEN IF Len(s) > 1 /\ s[2] \in SepChars
              THEN ReplaceRuns(Tail(s))
              ELSE <<"-">> \o ReplaceRuns(Tail(s))
         ELSE <<Head(s)>> \o ReplaceRuns(Tail(s))

(* .replace(/[^a-zA-Z0-9-]/g, "") *)
StripNonId(s) == SelectSeq(s, LAMBDA c : c \in IdChars)

normalizeSectionId(s) == StripNonId(ReplaceRuns(trim(s)))

(* Number.prototype.toString(36) of a value in [0, 1) whose base-36 fraction
   digits are rnd: "0" when there are none, "0." followed by them otherwise *)
toString36(rnd) == IF rnd = <<>> THEN <<"0">> ELSE <<"0", ".">> \o rnd

randomSectionId(rnd) == Substring(toString36(rnd), 2, 8)

(* resolveSectionId without the second emptiness test *)
resolveSectionIdUnchecked(answer, rnd) ==
    IF Truthy(answer) THEN normalizeSectionId(answer) ELSE randomSectionId(rnd)

(* addSectionWikilink, from the prompt's answer to the id that is used *)
resolveSectionId(answer, rnd) ==
    LET sectionId == IF Truthy(answer) THEN normalizeSectionId(answer) ELSE answer
    IN IF ~Truthy(sectionId) THEN randomSectionId(rnd) ELSE sectionId

----------------------------------------------------------------------------
(* Editor: the document as one string with "\n" line breaks, the selection
   as two zero-based offsets.  The characters U+2026, U+201C and U+201D are
   written "hellip", "ldquo" and "rdquo"; each is one character. *)

NewLines(doc) == {i \in 1..Len(doc) : doc[i] = "\n"}

lastLine(doc) == Cardinality(NewLines(doc))

(* offset of the first character of line l *)
LineStart(doc, l) ==
    IF l = 0 THEN 0
    ELSE CHOOSE i \in NewLines(doc) : Cardinality({j \in NewLines(doc) : j < i}) = l - 1

LineEnd(doc, l) ==
    IF l = lastLine(doc) THEN Len(doc) ELSE LineStart(doc, l + 1) - 1

offsetToPos(doc, off) ==
    LET l == Cardinality({j \in NewLines(doc) : j <= off})
    IN [line |-> l, ch |-> off - LineStart(doc, l)]

(* positions outside the document are clipped to it *)
posToOffset(doc, pos) ==
    IF pos.line < 0 THEN 0
    ELSE IF pos.line > lastLine(doc) THEN Len(doc)
    ELSE LineStart(doc, pos.line)
         + Max(0, Min(pos.ch, LineEnd(doc, pos.line) - LineStart(doc, pos.line)))

selFrom(e) == Min(e.anchor, e.head)
selTo(e) == Max(e.anchor, e.head)

getCursor(e) == offsetToPos(e.doc, e.head)

getSelection(e) == SubSeq(e.doc, selFrom(e) + 1, selTo(e))

(* insert text at a position; the selection ends are carried along and an
   end sitting at the insertion point stays in front of the inserted text *)
replaceRange(e, text, pos) ==
    LET p == posToOffset(e.doc, pos)
        shift(q) == IF q > p THEN q + Len(text) ELSE q
    IN [doc |-> SubSeq(e.doc, 1, p) \o text \o SubSeq(e.doc, p + 1, Len(e.doc)),
        anchor |-> shift(e.anchor), head |-> shift(e.head)]

(* replace the selected text; the cursor ends behind the inserted text *)
replaceSelection(e, text) ==
    [doc |-> SubSeq(e.doc, 1, selFrom(e)) \o text \o SubSeq(e.doc, selTo(e) + 1, Len(e.doc)),
     anchor |-> selFrom(e) + Len(text), head |-> selFrom(e) + Len(text)]

setSelection(e, a, h) ==
    [e EXCEPT !.anchor = posToOffset(e.doc, a), !.head = posToOffset(e.doc, h)]

setCursor(e, pos) == setSelection(e, pos, pos)

----------------------------------------------------------------------------
(* Markup written by the command handlers *)

ellipsisHtml == <<"<", "s", "p", "a", "n", " ", "c", "l", "a", "s", "s", "=", "\"", "c", "e", "n", "t", "e", "r", "-", "a", "l", "i", "g", "n", "\"", ">", "(", "hellip", ")", "<", "/", "s", "p", "a", "n", ">">>

diagOpen == <<">", " ", "<", "s", "p", "a", "n", " ", "c", "l", "a", "s", "s", "=", "\"", "l", "e", "f", "t", "-", "a", "l", "i", "g", "n", "\"", ">">>
diagClose == <<"<", "/", "s", "p", "a", "n", ">", "\n", ">", " ", "ldquo", "rdquo">>

replaceThis == <<"R", "e", "p", "l", "a", "c", "e", " ", "t", "h", "i", "s">>

plainLink(shortNotePath) == <<"[", "[">> \o shortNotePath \o <<"]", "]">>

aliasLink(shortNotePath, alias) ==
    <<"[", "[">> \o shortNotePath \o <<"|">> \o alias \o <<"]", "]">>

(* the link built on a test for null instead of a test for truth *)
characterLinkDefined(shortNotePath, alias) ==
    IF alias \notin {Null, Undefined} THEN aliasLink(shortNotePath, alias)
    ELSE plainLink(shortNotePath)

characterLink(shortNotePath, alias) ==
    IF Truthy(alias) THEN aliasLink(shortNotePath, alias) ELSE plainLink(shortNotePath)

(* the section link with the id and the display text in each other's place *)
sectionLinkSwapped(shortNotePath, sectionId, selection) ==
    <<"[", "[">> \o shortNotePath \o <<"#", "^">> \o selection \o <<"|">> \o sectionId
        \o <<"]", "]">>

sectionLink(shortNotePath, sectionId, selection) ==
    <<"[", "[">> \o shortNotePath \o <<"#", "^">> \o sectionId \o <<"|">> \o selection
        \o <<"]", "]">>

sectionLine(selection, sectionId) == selection \o <<" ", "^">> \o sectionId \o <<"\n">>

(* the callback trimming the content whichever note is open *)
processCallbackAlwaysTrim(content0, isViewFile, separator, selection, sectionId) ==
    LET content == trimEnd(content0)
    IN IF ~Truthy(content) THEN sectionLine(selection, sectionId)
       ELSE content \o separator \o sectionLine(selection, sectionId)

(* the callback handed to vault.process *)
processCallback(content0, isViewFile, separator, selection, sectionId) ==
    LET content == IF ~isViewFile THEN trimEnd(content0) ELSE content0
    IN IF ~Truthy(content) THEN sectionLine(selection, sectionId)
       ELSE content \o separator \o sectionLine(selection, sectionId)

----------------------------------------------------------------------------
(* Settings *)

TestNote == <<"T", "e", "s", "t", " ", "N", "o", "t", "e">>
TestPool == <<"T", "e", "s", "t", " ", "P", "o", "o", "l">>

CharacterPool(name, charNotes) ==
    [name |-> name, charNotes |-> charNotes, isEnabled |-> TRUE]

DEFAULT_SETTINGS ==
    [sectionNotes |-> <<TestNote>>,
     sectionSeparator |-> <<"\n", "\n", "-", "-", "-", "\n">>,
     characterPools |-> <<CharacterPool(TestPool, <<TestNote>>)>>]

(* what the host has been asked to store: nothing on a fresh install *)
NoData == [stored |-> FALSE, data |-> DEFAULT_SETTINGS]

(* saveSettings: hand the whole settings object to the host's saveData *)
saveSettings(s) == [stored |-> TRUE, data |-> s]

----------------------------------------------------------------------------
(* Prompt modals.  A modal carries the field `response` (PromptModal and
   ConfirmModal), the promise its awaiting handler is suspended on, and the
   zero-delay timer AwaitSuggestModal's onClose arms.  closedBy records how
   the user left the modal. *)

NoModal ==
    [kind |-> "none", open |-> FALSE, response |-> Undefined, promise |-> Pending,
     timer |-> FALSE, closedBy |-> "none", suggestions |-> <<>>,
     chosen |-> Null]

(* the settings tab before it is shown: no rows, no display() outstanding,
   no pool named in a confirmation dialog *)
NoTab == [pools |-> <<>>, notes |-> <<>>, pending |-> FALSE, shown |-> <<>>]

(* awaitSelection / awaitConfirmation: open the modal, return the promise *)
openModal(kind, suggestions) ==
    [NoModal EXCEPT !.kind = kind, !.open = TRUE, !.suggestions = suggestions]

(* a promise keeps the first value it is resolved with *)
resolve(m, v) == IF m.promise = Pending THEN [m EXCEPT !.promise = v] ELSE m

(* PromptModal.onClose / ConfirmModal.onClose *)
onClose(m) == resolve([m EXCEPT !.open = FALSE], m.response)

(* an onClose that resolves with null at once, without setTimeout *)
onCloseSuggestImmediate(m) == resolve([m EXCEPT !.open = FALSE], Null)

(* the onClose installed by AwaitSuggestModal.awaitSelection *)
onCloseSuggest(m) == [m EXCEPT !.open = FALSE, !.timer = TRUE]

SuggestLimit == 1000

(* getSuggestions for the empty query: every suggestion up to the limit *)
getSuggestions(m) == SubSeq(m.suggestions, 1, Min(Len(m.suggestions), SuggestLimit))

IsSuggest(m) == m.kind \in {"TextSuggestModal", "NoteSuggestModal"}

Settled == modal.kind # "none" /\ modal.promise # Pending

(* what the user types: a pool name in the settings tab, an alias or a
   section id in a command *)
TypedTexts ==
    IF pc \in {"addPool", "editPool"} THEN {<<>>, <<"P">>}
    ELSE IF pc = "promptForAlias" THEN {<<>>, <<"P">>, <<"|", "]">>}
    ELSE {<<>>, <<"P">>, <<"#", " ">>}

(* textInput.onChange *)
TypeText(v) ==
    /\ modal.kind = "PromptModal" /\ modal.open
    /\ modal.response # v
    /\ modal' = [modal EXCEPT !.response = v]
    /\ UNCHANGED <<settings, saved, allNotes, contents, viewFile, editor,
                   pc, targetNote, cap, log, fin, fout, tab>>

(* PromptModal.inputCallback on the Enter key *)
PressEnter ==
    /\ modal.kind = "PromptModal" /\ modal.open
    /\ modal' = onClose([modal EXCEPT !.closedBy = "respond"])
    /\ UNCHANGED <<settings, saved, allNotes, contents, viewFile, editor,
                   pc, targetNote, cap, log, fin, fout, tab>>

(* the Yes and No buttons of ConfirmModal *)
ClickConfirm(value) ==
    /\ modal.kind = "ConfirmModal" /\ modal.open
    /\ modal' = onClose([modal EXCEPT !.response = value, !.closedBy = "respond"])
    /\ UNCHANGED <<settings, saved, allNotes, contents, viewFile, editor,
                   pc, targetNote, cap, log, fin, fout, tab>>

(* the user leaves the modal without answering: Escape, the close button or a
   click outside of it *)
CancelModal ==
    /\ modal.open
    /\ modal' = IF IsSuggest(modal)
                THEN onCloseSuggest([modal EXCEPT !.closedBy = "cancel"])
                ELSE onClose([modal EXCEPT !.closedBy = "cancel"])
    /\ UNCHANGED <<settings, saved, allNotes, contents, viewFile, editor,
                   pc, targetNote, cap, log, fin, fout, tab>>

(* the user picks a suggestion: the host closes the modal and calls
   onChooseSuggestion, which awaitSelection has set to resolve; both happen
   in one task of the host, in either order, and the timer armed by the
   close cannot fire between them *)
ChooseSuggestion ==
    /\ IsSuggest(modal) /\ modal.open
    /\ \E i \in 1..Len(getSuggestions(modal)) : \E closeFirst \in BOOLEAN :
          LET item == getSuggestions(modal)[i]
              m == [modal EXCEPT !.closedBy = "respond", !.chosen = item]
          IN modal' = IF closeFirst THEN resolve(onCloseSuggest(m), item)
                      ELSE onCloseSuggest(resolve(m, item))
    /\ UNCHANGED <<settings, saved, allNotes, contents, viewFile, editor,
                   pc, targetNote, cap, log, fin, fout, tab>>

(* the zero-delay timer of AwaitSuggestModal fires: resolve(null) *)
TimerFire ==
    /\ modal.timer
    /\ modal' = resolve([modal EXCEPT !.timer = FALSE], Null)
    /\ UNCHANGED <<settings, saved, allNotes, contents, viewFile, editor,
                   pc, targetNote, cap, log, fin, fout, tab>>

----------------------------------------------------------------------------
(* Command handlers.  log is the record of the current invocation: what
   it started from, the prompts it opened, the notices it showed, how its
   prompts were left and what it wrote. *)

NoLog ==
    [n |-> 0, cmd |-> "none", outcome |-> "none", cancelled |-> FALSE,
     start |-> [editor |-> [doc |-> <<>>, anchor |-> 0, head |-> 0],
                contents |-> <<>>, settings |-> DEFAULT_SETTINGS],
     prompts |-> <<>>, notices |-> <<>>,
     delivered |-> [kind |-> "none", closedBy |-> "none", value |-> Pending,
                    chosen |-> Null],
     resumes |-> 0,
     cancelledAt |-> "none", answer |-> Undefined, sectionId |-> <<>>,
     selection |-> <<>>, existing |-> <<>>, isViewFile |-> FALSE,
     alias |-> Undefined, shortNotePath |-> <<>>, target |-> Null, cursor0 |-> [line |-> 0, ch |-> 0]]

newLog(cmd) ==
    [NoLog EXCEPT !.n = log.n + 1, !.cmd = cmd, !.outcome = "running",
                  !.start = [editor |-> editor, contents |-> contents,
                             settings |-> settings],
                  !.cursor0 = getCursor(editor)]

(* the handler is resumed with the value its promise was settled with *)
received(l) ==
    [l EXCEPT !.cancelled = @ \/ modal.closedBy = "cancel",
              !.cancelledAt = IF modal.closedBy = "cancel" /\ @ = "none" THEN pc ELSE @,
              !.delivered = [kind |-> modal.kind, closedBy |-> modal.closedBy,
                             value |-> modal.promise, chosen |-> modal.chosen],
              !.resumes = @ + 1]

opened(l, kind) == [l EXCEPT !.prompts = Append(@, kind)]

noticed(l, text) == [l EXCEPT !.notices = Append(@, text), !.outcome = "aborted"]

CanInvoke == pc = "idle" /\ modal.kind = "none" /\ log.n < MaxInvocations

addDramaticEllipsis ==
    /\ CanInvoke
    /\ LET e1 == replaceRange(editor, ellipsisHtml, getCursor(editor))
           editorPos == getCursor(e1)
       IN editor' = setCursor(e1, [line |-> editorPos.line,
                                   ch |-> editorPos.ch + Len(ellipsisHtml)])
    /\ log' = [newLog("addDramaticEllipsis") EXCEPT !.outcome = "done"]
    /\ UNCHANGED <<settings, saved, allNotes, contents, viewFile,
                   pc, targetNote, cap, modal, fin, fout, tab>>

(* promptForCharacter without the test for an empty list *)
promptForCharacterUnchecked(cmd) ==
    /\ CanInvoke
    /\ modal' = openModal("TextSuggestModal", getActiveCharNotes(settings.characterPools))
    /\ pc' = "promptForCharacter"
    /\ log' = opened(newLog(cmd), "character")
    /\ UNCHANGED <<settings, saved, allNotes, contents, viewFile, editor,
                   targetNote, cap, fin, fout, tab>>

(* addCharacterReference and addCharacterDiag up to the first await inside
   promptForCharacter *)
promptForCharacter(cmd) ==
    /\ CanInvoke
    /\ LET activeCharNotes == getActiveCharNotes(settings.characterPools)
       IN IF Len(activeCharNotes) = 0
          THEN /\ log' = noticed(newLog(cmd), "No active characters to reference.")
               /\ UNCHANGED <<pc, modal>>
          ELSE /\ modal' = openModal("TextSuggestModal", activeCharNotes)
               /\ pc' = "promptForCharacter"
               /\ log' = opened(newLog(cmd), "character")
    /\ UNCHANGED <<settings, saved, allNotes, contents, viewFile, editor,
                   targetNote, cap, fin, fout, tab>>

(* promptForCharacter without the test of what getFileByPath returned *)
resumeCharacterUnresolved ==
    /\ pc = "promptForCharacter" /\ Settled
    /\ LET selectedCharNote == modal.promise
       IN IF ~Truthy(selectedCharNote)
          THEN /\ log' = noticed(received(log), "No character selected.")
               /\ modal' = NoModal /\ pc' = "idle" /\ UNCHANGED targetNote
          ELSE /\ targetNote' = getFileByPath(allNotes, selectedCharNote)
               /\ modal' = openModal("PromptModal", <<>>)
               /\ pc' = "promptForAlias"
               /\ log' = opened(received(log), "alias")
    /\ UNCHANGED <<settings, saved, allNotes, contents, viewFile, editor,
                   cap, fin, fout, tab>>

(* promptForCharacter after the selection, then promptForAlias *)
resumeCharacter ==
    /\ pc = "promptForCharacter" /\ Settled
    /\ LET selectedCharNote == modal.promise
           target == getFileByPath(allNotes, selectedCharNote)
       IN IF ~Truthy(selectedCharNote)
          THEN /\ log' = noticed(received(log), "No character selected.")
               /\ modal' = NoModal /\ pc' = "idle" /\ UNCHANGED targetNote
          ELSE IF ~Truthy(target)
          THEN /\ log' = noticed(received(log), "Note not found.")
               /\ modal' = NoModal /\ pc' = "idle" /\ UNCHANGED targetNote
          ELSE /\ targetNote' = target
               /\ modal' = openModal("PromptModal", <<>>)
               /\ pc' = "promptForAlias"
               /\ log' = opened(received(log), "alias")
    /\ UNCHANGED <<settings, saved, allNotes, contents, viewFile, editor,
                   cap, fin, fout, tab>>

insertReference(e, link) == replaceSelection(e, link)

insertDiag(e, link) ==
    LET e1 == replaceRange(e, diagOpen \o link \o diagClose, getCursor(e))
        editorPos == getCursor(e1)
    IN setCursor(e1, [line |-> editorPos.line + 1, ch |-> editorPos.ch - 1])

(* addCharacterReference and addCharacterDiag after the alias prompt *)
resumeAlias ==
    /\ pc = "promptForAlias" /\ Settled
    /\ LET alias == modal.promise
           shortNotePath == shortenNotePath(targetNote, allNotes)
           link == characterLink(shortNotePath, alias)
       IN /\ editor' = IF log.cmd = "addCharacterDiag"
                       THEN insertDiag(editor, link)
                       ELSE insertReference(editor, link)
          /\ log' = [received(log) EXCEPT !.outcome = "done", !.alias = alias,
                                          !.shortNotePath = shortNotePath,
                                          !.target = targetNote]
    /\ modal' = NoModal /\ pc' = "idle" /\ targetNote' = Null
    /\ UNCHANGED <<settings, saved, allNotes, contents, viewFile,
                   cap, fin, fout, tab>>

(* addSectionWikilink up to its first await *)
addSectionWikilink ==
    /\ CanInvoke
    /\ IF Len(settings.sectionNotes) = 0
       THEN /\ modal' = openModal("NoteSuggestModal", allNotes)
            /\ pc' = "awaitTargetNote"
       ELSE /\ modal' = openModal("TextSuggestModal", settings.sectionNotes)
            /\ pc' = "awaitSelectedNote"
    /\ log' = opened(newLog("addSectionWikilink"), "target")
    /\ UNCHANGED <<settings, saved, allNotes, contents, viewFile, editor,
                   targetNote, cap, fin, fout, tab>>

(* addSectionWikilink from the answer of the target prompt to the section-id
   prompt *)
resumeTarget ==
    /\ pc \in {"awaitTargetNote", "awaitSelectedNote"} /\ Settled
    /\ LET selected == modal.promise
           target == IF pc = "awaitTargetNote" THEN selected
                     ELSE getFileByPath(allNotes, selected)
       IN IF pc = "awaitSelectedNote" /\ ~Truthy(selected)
          THEN /\ log' = noticed(received(log), "No note selected.")
               /\ modal' = NoModal /\ pc' = "idle" /\ UNCHANGED targetNote
          ELSE IF ~Truthy(target)
          THEN /\ log' = noticed(received(log), "Note not found.")
               /\ modal' = NoModal /\ pc' = "idle" /\ UNCHANGED targetNote
          ELSE /\ targetNote' = target
               /\ modal' = openModal("PromptModal", <<>>)
               /\ pc' = "awaitSectionId"
               /\ log' = opened(received(log), "sectionId")
    /\ UNCHANGED <<settings, saved, allNotes, contents, viewFile, editor,
                   cap, fin, fout, tab>>

RandomDigits == {<<>>, <<"i">>, <<"k", "3", "x", "9", "q", "1", "z">>}

(* addSectionWikilink after the section-id prompt: insert the link, select
   its display text, append the section to the target note *)
resumeSectionId ==
    /\ pc = "awaitSectionId" /\ Settled
    /\ \E rnd \in (IF Truthy(modal.promise) /\ Truthy(normalizeSectionId(modal.promise))
                   THEN {<<>>} ELSE RandomDigits) :
         LET sectionId == resolveSectionId(modal.promise, rnd)
             selection == IF Truthy(getSelection(editor)) THEN getSelection(editor)
                          ELSE replaceThis
             shortNotePath == shortenNotePath(targetNote, allNotes)
             link == sectionLink(shortNotePath, sectionId, selection)
             e1 == replaceSelection(editor, link)
             editorPos == getCursor(e1)
         IN /\ editor' = setSelection(e1,
                            [line |-> editorPos.line,
                             ch |-> editorPos.ch - Len(selection) - 2],
                            [line |-> editorPos.line, ch |-> editorPos.ch - 2])
            /\ contents' = [contents EXCEPT ![targetNote] =
                               processCallback(@, targetNote = viewFile,
                                               settings.sectionSeparator,
                                               selection, sectionId)]
            /\ log' = [received(log) EXCEPT
                          !.outcome = "done", !.answer = modal.promise,
                          !.sectionId = sectionId, !.selection = selection,
                          !.existing = contents[targetNote],
                          !.isViewFile = (targetNote = viewFile),
                          !.shortNotePath = shortNotePath,
                          !.target = targetNote]
    /\ modal' = NoModal /\ pc' = "idle" /\ targetNote' = Null
    /\ UNCHANGED <<settings, saved, allNotes, viewFile,
                   cap, fin, fout, tab>>

----------------------------------------------------------------------------
(* The command handlers over a vault and settings the plugin can be in *)

pA == <<"A", ".", "m", "d">>
pDA == <<"d", "/", "A", ".", "m", "d">>
pB == <<"B", ".", "m", "d">>
pGone == <<"G", ".", "m", "d">>

VaultsIn == {<<pA, pDA, pB>>, <<pB, pA>>}

ContentsIn == {<<>>, <<" ", "\n">>, <<"x", " ">>}

SectionNotesIn == {<<>>, DEFAULT_SETTINGS.sectionNotes, <<pA, pGone>>}

PoolsIn ==
    {<<>>,
     DEFAULT_SETTINGS.characterPools,
     <<[name |-> <<"P">>, charNotes |-> <<pA>>, isEnabled |-> FALSE],
       [name |-> <<"Q">>, charNotes |-> <<>>, isEnabled |-> TRUE]>>,
     <<[name |-> <<"P">>, charNotes |-> <<pA, pGone>>, isEnabled |-> TRUE],
       [name |-> <<"Q">>, charNotes |-> <<pB>>, isEnabled |-> TRUE]>>}

EditorsIn ==
    {[doc |-> <<>>, anchor |-> 0, head |-> 0],
     [doc |-> <<"x", "y">>, anchor |-> 0, head |-> 2],
     [doc |-> <<"x", "\n", "y", "z">>, anchor |-> 4, head |-> 3]}

Idle ==
    /\ pc = "idle" /\ targetNote = Null /\ cap = 0
    /\ modal = NoModal /\ log = NoLog
    /\ fin = <<>> /\ fout = <<>>

Init ==
    /\ \E sn \in SectionNotesIn, cp \in PoolsIn :
          settings = [DEFAULT_SETTINGS EXCEPT !.sectionNotes = sn, !.characterPools = cp]
    /\ saved = NoData
    /\ allNotes \in VaultsIn
    /\ \E c \in ContentsIn : contents = [f \in Range(allNotes) |-> c]
    /\ viewFile \in {pA, pB}
    /\ editor \in EditorsIn
    /\ Idle
    /\ tab = NoTab

Next ==
    \/ addDramaticEllipsis
    \/ \E cmd \in {"addCharacterReference", "addCharacterDiag"} : promptForCharacter(cmd)
    \/ resumeCharacter
    \/ resumeAlias
    \/ addSectionWikilink
    \/ resumeTarget
    \/ resumeSectionId
    \/ \E v \in TypedTexts : TypeText(v)
    \/ PressEnter
    \/ CancelModal
    \/ ChooseSuggestion
    \/ TimerFire

Spec == Init /\ [][Next]_vars

----------------------------------------------------------------------------
(* Settings tab.  Every row of the tab is rendered from the settings by
   display(); tab holds the rows as they were last rendered.  A handler that
   removes or renames calls display() at once; Add Pool and Add Note push,
   await the save and call display() after it, so the rows can lag behind
   the lists by the pushed elements. *)

pools == settings.characterPools

(* the rows display() builds: per pool its name and one row per member, and
   one row per section note; the i-th row's buttons capture the index i.  A
   display() still outstanding behind an awaited save would build the same
   rows again, so it is no longer tracked. *)
display(s) ==
    [tab EXCEPT
        !.pools = [i \in 1..Len(s.characterPools) |->
                      [name |-> s.characterPools[i].name,
                       charNotes |-> s.characterPools[i].charNotes]],
        !.notes = s.sectionNotes,
        !.pending = FALSE]

RemoveAt(s, i) == SubSeq(s, 1, i - 1) \o SubSeq(s, i + 1, Len(s))

CanClick == pc = "idle" /\ modal.kind = "none"

Unprompted == UNCHANGED <<allNotes, contents, viewFile, editor, pc, targetNote,
                          cap, modal, log, fin, fout>>

Prompted == UNCHANGED <<allNotes, contents, viewFile, editor, targetNote,
                        log, fin, fout>>

(* a handler opens its prompt and suspends *)
suspend(at, i, kind, suggestions) ==
    /\ CanClick
    /\ pc' = at /\ cap' = i
    /\ modal' = openModal(kind, suggestions)
    /\ tab' = [tab EXCEPT !.shown = IF at = "removePool" THEN pools[i].name ELSE @]
    /\ UNCHANGED <<settings, saved>>
    /\ Prompted

(* the end of a resumed handler *)
return == pc' = "idle" /\ cap' = 0 /\ modal' = NoModal

(* mutate the settings, then saveSettings() *)
mutate(s) == settings' = s /\ saved' = saveSettings(s)

(* a handler returning before it has changed anything *)
abort == UNCHANGED <<settings, saved>> /\ tab' = [tab EXCEPT !.shown = <<>>]

(* mutate, saveSettings(), this.display() *)
mutateAndDisplay(s) == mutate(s) /\ tab' = [display(s) EXCEPT !.shown = <<>>]

(* mutate, await saveSettings(): this.display() runs once the save is done *)
mutateAndAwait(s) == mutate(s) /\ tab' = [tab EXCEPT !.pending = TRUE]

(* the this.display() behind an awaited saveSettings() *)
displayAfterSave ==
    /\ tab.pending
    /\ tab' = display(settings)
    /\ UNCHANGED <<settings, saved, allNotes, contents, viewFile, editor,
                   pc, targetNote, cap, modal, log, fin, fout>>

(* the number of members of all pools together *)
RECURSIVE CountMembers(_, _)
CountMembers(ps, i) ==
    IF i > Len(ps) THEN 0 ELSE Len(ps[i].charNotes) + CountMembers(ps, i + 1)

(* Add Pool *)
clickAddPool ==
    /\ Len(pools) < MaxPools
    /\ suspend("addPool", 0, "PromptModal", <<>>)

(* Add Pool putting the new pool in front of the others *)
resumeAddPoolFront ==
    /\ pc = "addPool" /\ Settled
    /\ LET name == modal.promise
       IN IF ~Truthy(name) THEN abort
          ELSE mutateAndAwait([settings EXCEPT
                         !.characterPools = <<CharacterPool(name, <<>>)>> \o @])
    /\ return /\ Prompted

resumeAddPool ==
    /\ pc = "addPool" /\ Settled
    /\ LET name == modal.promise
       IN IF ~Truthy(name) THEN abort
          ELSE mutateAndAwait([settings EXCEPT
                         !.characterPools = Append(@, CharacterPool(name, <<>>))])
    /\ return /\ Prompted

(* Edit Pool *)
clickEditPool ==
    \E i \in 1..Len(tab.pools) : suspend("editPool", i, "PromptModal", <<>>)

resumeEditPool ==
    /\ pc = "editPool" /\ Settled
    /\ LET newName == modal.promise
       IN IF ~Truthy(newName) THEN abort
          ELSE mutateAndDisplay([settings EXCEPT !.characterPools[cap].name = newName])
    /\ return /\ Prompted

(* Add Character *)
clickAddCharacter ==
    \E i \in 1..Len(tab.pools) :
        /\ CountMembers(pools, 1) < MaxMembers
        /\ suspend("addCharacter", i, "NoteSuggestModal", allNotes)

resumeAddCharacter ==
    /\ pc = "addCharacter" /\ Settled
    /\ LET charNote == modal.promise
       IN IF ~Truthy(charNote) THEN abort
          ELSE mutateAndDisplay([settings EXCEPT
                         !.characterPools[cap].charNotes = Append(@, charNote)])
    /\ return /\ Prompted

(* Remove Pool *)
clickRemovePool ==
    \E i \in 1..Len(tab.pools) : suspend("removePool", i, "ConfirmModal", <<>>)

resumeRemovePool ==
    /\ pc = "removePool" /\ Settled
    /\ LET response == modal.promise
       IN IF ~Truthy(response) THEN abort
          ELSE mutateAndDisplay([settings EXCEPT !.characterPools = RemoveAt(@, cap)])
    /\ return /\ Prompted

(* Enable/Disable Pool *)
togglePool ==
    /\ CanClick
    /\ \E i \in 1..Len(tab.pools) :
          mutate([settings EXCEPT !.characterPools[i].isEnabled = ~@])
    /\ UNCHANGED tab
    /\ Unprompted

(* Remove Character without the saveSettings() call *)
removeCharacterUnsaved ==
    /\ CanClick
    /\ \E i \in 1..Len(tab.pools) : \E j \in 1..Len(tab.pools[i].charNotes) :
          LET s == [settings EXCEPT !.characterPools[i].charNotes = RemoveAt(@, j)]
          IN settings' = s /\ tab' = display(s)
    /\ UNCHANGED saved
    /\ Unprompted

(* Remove Character *)
removeCharacter ==
    /\ CanClick
    /\ \E i \in 1..Len(tab.pools) : \E j \in 1..Len(tab.pools[i].charNotes) :
          mutateAndDisplay([settings EXCEPT
                              !.characterPools[i].charNotes = RemoveAt(@, j)])
    /\ Unprompted

(* value.replace(/\\n/g, "\n"): every backslash followed by n becomes a line
   break *)
RECURSIVE unescapeNewlines(_)
unescapeNewlines(s) ==
    IF s = <<>> THEN <<>>
    ELSE IF Len(s) > 1 /\ s[1] = "\\" /\ s[2] = "n"
         THEN <<"\n">> \o unescapeNewlines(SubSeq(s, 3, Len(s)))
         ELSE <<Head(s)>> \o unescapeNewlines(Tail(s))

SeparatorTexts == {<<"\\", "n", "-">>, <<"\\", "n", "\\", "n", "-", "-", "-", "\\", "n">>}

(* Section separator *)
changeSeparator ==
    /\ CanClick
    /\ \E value \in SeparatorTexts :
          /\ unescapeNewlines(value) # settings.sectionSeparator
          /\ mutate([settings EXCEPT !.sectionSeparator = unescapeNewlines(value)])
    /\ UNCHANGED tab
    /\ Unprompted

(* Add Note *)
clickAddNote ==
    /\ Len(settings.sectionNotes) < MaxSectionNotes
    /\ suspend("addNote", 0, "NoteSuggestModal", allNotes)

contains(s, x) == \E i \in 1..Len(s) : s[i] = x

(* Add Note without the test for a note already added *)
resumeAddNoteUnchecked ==
    /\ pc = "addNote" /\ Settled
    /\ LET note == modal.promise
       IN IF ~Truthy(note) THEN abort
          ELSE mutateAndAwait([settings EXCEPT !.sectionNotes = Append(@, note)])
    /\ return /\ Prompted

resumeAddNote ==
    /\ pc = "addNote" /\ Settled
    /\ LET note == modal.promise
       IN IF ~Truthy(note) THEN abort
          ELSE IF contains(settings.sectionNotes, note)
          THEN abort
          ELSE mutateAndAwait([settings EXCEPT !.sectionNotes = Append(@, note)])
    /\ return /\ Prompted

(* Remove Note without the this.display() call *)
removeNoteStale ==
    /\ CanClick
    /\ \E i \in 1..Len(tab.notes) :
          mutate([settings EXCEPT !.sectionNotes = RemoveAt(@, i)])
    /\ UNCHANGED tab
    /\ Unprompted

(* Remove Note *)
removeNote ==
    /\ CanClick
    /\ \E i \in 1..Len(tab.notes) :
          mutateAndDisplay([settings EXCEPT !.sectionNotes = RemoveAt(@, i)])
    /\ Unprompted

(* loadSettings on a fresh install: the defaults, nothing stored yet *)
InitSettings ==
    /\ settings = DEFAULT_SETTINGS
    /\ saved = NoData
    /\ allNotes = <<pDA>>
    /\ contents = [f \in Range(allNotes) |-> <<>>]
    /\ viewFile = pA
    /\ editor = [doc |-> <<>>, anchor |-> 0, head |-> 0]
    /\ Idle
    /\ tab = [NoTab EXCEPT !.pools = <<[name |-> TestPool, charNotes |-> <<TestNote>>]>>,
                           !.notes = <<TestNote>>]

NextSettings ==
    \/ clickAddPool
    \/ resumeAddPool
    \/ clickEditPool
    \/ resumeEditPool
    \/ clickAddCharacter
    \/ resumeAddCharacter
    \/ clickRemovePool
    \/ resumeRemovePool
    \/ togglePool
    \/ removeCharacter
    \/ changeSeparator
    \/ clickAddNote
    \/ resumeAddNote
    \/ removeNote
    \/ displayAfterSave
    \/ \E v \in TypedTexts : TypeText(v)
    \/ PressEnter
    \/ \E b \in {True, False} : ClickConfirm(b)
    \/ CancelModal
    \/ ChooseSuggestion
    \/ TimerFire

SpecSettings == InitSettings /\ [][NextSettings]_vars

----------------------------------------------------------------------------
(* The pure helpers over bounded inputs: fin holds the arguments of one call,
   fout its result once pc is "returned". *)

NotCalled ==
    /\ settings = DEFAULT_SETTINGS /\ saved = NoData
    /\ allNotes = <<>> /\ contents = <<>> /\ viewFile = Null
    /\ editor = [doc |-> <<>>, anchor |-> 0, head |-> 0]
    /\ pc = "call" /\ targetNote = Null /\ cap = 0
    /\ modal = NoModal /\ log = NoLog /\ fout = <<>>
    /\ tab = NoTab

Returned(result) ==
    /\ pc = "call" /\ pc' = "returned" /\ fout' = result
    /\ UNCHANGED <<settings, saved, allNotes, contents, viewFile, editor,
                   targetNote, cap, modal, log, fin, tab>>

SeqsUpTo(S, n) == UNION {[1..k -> S] : k \in 0..n}

NoDuplicates(s) == \A i, j \in 1..Len(s) : s[i] = s[j] => i = j

(* shortenNotePath(note, vault) for every enumeration order of every set of
   notes *)
pEA == <<"e", "/", "A", ".", "m", "d">>
pDB == <<"d", "/", "B", ".", "m", "d">>

NotesIn == {pA, pDA, pEA, pB, pDB}

InitShorten ==
    /\ NotCalled
    /\ \E note \in NotesIn :
       \E notes \in {ns \in SeqsUpTo(NotesIn, MaxVaultIn) : NoDuplicates(ns)} :
          fin = [note |-> note, notes |-> notes]

callShortenNotePath == Returned(shortenNotePath(fin.note, fin.notes))

SpecShorten == InitShorten /\ [][callShortenNotePath]_vars

(* getActiveCharNotes(pools) *)
MemberListsIn == SeqsUpTo({pA, pB}, MaxMembersIn)

PoolRecordsIn == [name : {TestPool}, charNotes : MemberListsIn, isEnabled : BOOLEAN]

InitActive ==
    /\ NotCalled
    /\ fin \in SeqsUpTo(PoolRecordsIn, MaxPoolsIn)

callGetActiveCharNotes == Returned(getActiveCharNotes(fin))

SpecActive == InitActive /\ [][callGetActiveCharNotes]_vars

(* the section id addSectionWikilink uses for an answer of the prompt *)
AnswerChars == {"a", "Z", "2", " ", "_", "#", "-"}

mySection == <<"M", "y", " ", "S", "e", "c", "t", "i", "o", "n", "!", "!", " ", "2">>

AnswersIn == {Null, Undefined, mySection} \cup SeqsUpTo(AnswerChars, MaxIdLen)

InitSectionId ==
    /\ NotCalled
    /\ \E answer \in AnswersIn, rnd \in RandomDigits :
          fin = [answer |-> answer, rnd |-> rnd]

callResolveSectionId == Returned(resolveSectionId(fin.answer, fin.rnd))

SpecSectionId == InitSectionId /\ [][callResolveSectionId]_vars

----------------------------------------------------------------------------
(* Properties of the pure helpers *)

(* C4: shortenNotePath(T, N) is T's bare base name when exactly one note of N
   has that base name, and T's full path without its extension suffix when
   two or more notes of N have it, whatever the order N is enumerated in. *)
C4_ShortenNotePath ==
    pc = "returned" =>
        LET sharing == {i \in 1..Len(fin.notes) : basename(fin.notes[i]) = basename(fin.note)}
            withoutExtension == SubSeq(fin.note, 1, LastIndexOf(fin.note, ".") - 1)
        IN /\ Cardinality(sharing) = 1 => fout = basename(fin.note)
           /\ Cardinality(sharing) >= 2 => fout = withoutExtension

C4_Witness ==
    /\ pc = "returned"
    /\ fin.note = pDA /\ fin.notes = <<pB, pEA, pDA>>
    /\ fout = <<"d", "/", "A">>

(* C5: getActiveCharNotes(P) is the concatenation, in pool order then member
   order, of the member lists of exactly the enabled pools, duplicates kept,
   and is empty when no pool is enabled or every enabled pool is empty. *)
C5_ActiveCharNotes ==
    pc = "returned" =>
        LET n == Len(fin)
            size(i) == IF fin[i].isEnabled THEN Len(fin[i].charNotes) ELSE 0
            before[i \in 0..n] == IF i = 0 THEN 0 ELSE before[i - 1] + size(i)
        IN /\ Len(fout) = before[n]
           /\ \A i \in 1..n : fin[i].isEnabled =>
                 \A j \in 1..Len(fin[i].charNotes) :
                     fout[before[i - 1] + j] = fin[i].charNotes[j]
           /\ (\A i \in 1..n : fin[i].isEnabled => fin[i].charNotes = <<>>)
                 => fout = <<>>

C5_Witness ==
    /\ pc = "returned"
    /\ fin = <<[name |-> TestPool, charNotes |-> <<pA>>, isEnabled |-> FALSE],
               [name |-> TestPool, charNotes |-> <<pB, pB>>, isEnabled |-> TRUE]>>
    /\ fout = <<pB, pB>>

(* C6: the section id used is the normalized answer (trimmed, each run of
   whitespace or underscores turned into one hyphen, every character outside
   [A-Za-z0-9-] removed) when that is non-empty, and a generated id when the
   answer is absent, blank or normalizes to the empty string; a normalized id
   has no character outside [A-Za-z0-9-]. *)
C6_SectionIdUsed ==
    pc = "returned" =>
        LET a == fin.answer
            isString == a \notin {Null, Undefined}
            solid == {i \in 1..Len(a) : a[i] \notin WhiteSpace}
            t == IF solid = {} THEN <<>>
                 ELSE SubSeq(a, CHOOSE i \in solid : \A j \in solid : i <= j,
                                CHOOSE i \in solid : \A j \in solid : j <= i)
            piece(i) == IF t[i] \in SepChars
                        THEN IF i < Len(t) /\ t[i + 1] \in SepChars THEN <<>> ELSE <<"-">>
                        ELSE IF t[i] \in IdChars THEN <<t[i]>> ELSE <<>>
            normalized == Concat([i \in 1..Len(t) |-> piece(i)])
        IN /\ IF isString /\ normalized # <<>>
              THEN fout = normalized /\ Range(fout) \subseteq IdChars
              ELSE fout = randomSectionId(fin.rnd)
           /\ a = mySection => fout = <<"M", "y", "-", "S", "e", "c", "t", "i", "o", "n", "-", "2">>

C6_Witness ==
    /\ pc = "returned"
    /\ fin.answer = <<"#", "#">>
    /\ fin.rnd = <<"k", "3", "x", "9", "q", "1", "z">>
    /\ fout = <<"k", "3", "x", "9", "q", "1">>

----------------------------------------------------------------------------
(* Properties of the command handlers *)

Finished == pc = "idle" /\ log.outcome \in {"done", "aborted"}

Unmodified ==
    /\ editor.doc = log.start.editor.doc
    /\ contents = log.start.contents
    /\ settings = log.start.settings

(* C1: if the user cancels any prompt a command opens, then when the handler
   finishes the active document, the target note's content and the settings
   are what they were when the command was invoked. *)
C1_CancelLeavesUnmodified == (Finished /\ log.cancelled) => Unmodified

(* C2: a cancelled prompt resumes its handler with an absent value (null,
   undefined or false) whatever the user typed or highlighted before; a value
   that is not absent is delivered only when the user responded. *)
C2_CancelDeliversAbsent ==
    (modal.closedBy = "cancel" /\ modal.promise # Pending)
        => modal.promise \in {Null, Undefined, False}

(* C3: after a successful 'add section wikilink' the target note's content is
   "S ^I\n" when the note was empty and trimEnd(existing) + SEP + "S ^I\n"
   when it was not, for every target note. *)
C3_AppendedTrimmed ==
    (log.cmd = "addSectionWikilink" /\ log.outcome = "done") =>
        contents[log.target] =
            IF log.existing = <<>>
            THEN log.selection \o <<" ", "^">> \o log.sectionId \o <<"\n">>
            ELSE trimEnd(log.existing) \o settings.sectionSeparator
                 \o log.selection \o <<" ", "^">> \o log.sectionId \o <<"\n">>

(* C3, amended: the existing content is trimmed at its end only when the target
   note is not the open document; the new content is "S ^I\n" when that
   content is empty and that content + SEP + "S ^I\n" when it is not. *)
C3_AppendedAsOpen ==
    (log.cmd = "addSectionWikilink" /\ log.outcome = "done") =>
        LET kept == IF log.target = viewFile THEN log.existing ELSE trimEnd(log.existing)
        IN contents[log.target] =
              IF kept = <<>>
              THEN log.selection \o <<" ", "^">> \o log.sectionId \o <<"\n">>
              ELSE kept \o settings.sectionSeparator
                   \o log.selection \o <<" ", "^">> \o log.sectionId \o <<"\n">>

C3_Witness ==
    /\ log.cmd = "addSectionWikilink" /\ log.outcome = "done"
    /\ log.target = viewFile
    /\ log.existing = <<"x", " ">>
    /\ contents[log.target] = <<"x", " ">> \o settings.sectionSeparator
                              \o <<"x", "y", " ", "^", "P", "\n">>

(* C8: 'add character reference' or 'add character dialog block' invoked
   while no enabled pool has a member shows a notice, opens neither the
   character prompt nor the alias prompt, and leaves the document as it is. *)
C8_NoActiveCharacters ==
    (/\ log.cmd \in {"addCharacterReference", "addCharacterDiag"}
     /\ \A i \in 1..Len(log.start.settings.characterPools) :
           log.start.settings.characterPools[i].isEnabled
               => log.start.settings.characterPools[i].charNotes = <<>>)
    => /\ log.notices = <<"No active characters to reference.">>
       /\ log.prompts = <<>>
       /\ modal.kind = "none" /\ pc = "idle"
       /\ editor.doc = log.start.editor.doc

C8_Witness ==
    /\ log.cmd = "addCharacterDiag"
    /\ Len(settings.characterPools) = 2
    /\ ~settings.characterPools[1].isEnabled
    /\ settings.characterPools[1].charNotes # <<>>
    /\ log.notices = <<"No active characters to reference.">>

(* C9: when the path chosen in a prompt resolves to no note of the file index
   the handler shows a notice and aborts: no further prompt is opened and the
   document, the notes and the settings are left as they were. *)
C9_MissingResolution ==
    (/\ log.delivered.kind = "TextSuggestModal"
     /\ Truthy(log.delivered.value)
     /\ log.delivered.value \notin Range(allNotes))
    => /\ Finished /\ log.outcome = "aborted"
       /\ modal.kind = "none"
       /\ log.notices = <<"Note not found.">>
       /\ Len(log.prompts) = 1
       /\ Unmodified /\ editor = log.start.editor

C9_Witness ==
    /\ log.cmd = "addCharacterReference"
    /\ log.delivered.value = pGone
    /\ log.notices = <<"Note not found.">>
    /\ Finished

----------------------------------------------------------------------------
(* Properties of the settings tab *)

(* C7: from the default settings, under every sequence of settings-tab
   operations, each note path is in sectionNotes at most once, and adding a
   path already present leaves sectionNotes as it is. *)
C7_SectionNotesUnique ==
    /\ [](NoDuplicates(settings.sectionNotes))
    /\ [][(pc = "addNote" /\ Settled /\ contains(settings.sectionNotes, modal.promise))
             => settings'.sectionNotes = settings.sectionNotes]_vars

C7_Witness ==
    /\ pc = "addNote" /\ Settled
    /\ settings.sectionNotes = <<pDA>>
    /\ modal.promise = pDA

(* C10: every operation that changes the settings requests persistence of
   them before it ends, so whenever no operation is in progress what was last
   handed to the host equals the settings in memory; an operation that aborts
   changes nothing. *)
C10_PersistedAfterMutation ==
    /\ [](pc = "idle" => IF saved.stored THEN saved.data = settings
                         ELSE settings = DEFAULT_SETTINGS)
    /\ [][settings' # settings => (saved'.stored /\ saved'.data = settings')]_vars
    /\ [][(Settled /\ (\/ ~Truthy(modal.promise)
                       \/ (pc = "addNote" /\ contains(settings.sectionNotes, modal.promise))))
             => (settings' = settings /\ saved' = saved)]_vars

C10_Witness ==
    /\ pc = "idle" /\ saved.stored /\ saved.data = settings
    /\ Len(settings.characterPools) = 2
    /\ settings.characterPools[2].charNotes = <<pDA>>
    /\ ~settings.characterPools[1].isEnabled
    /\ settings.sectionNotes = <<>>
    /\ settings.sectionSeparator = <<"\n", "-">>

----------------------------------------------------------------------------
(* Properties of the inserted markup *)

(* C11: the markup a command inserts is "[[<shortPath>]]" when the alias is
   absent or empty, "[[<shortPath>|<alias>]]" when a non-empty alias was
   entered and "[[<shortPath>#^<sectionId>|<displayText>]]" for a section
   link; shortPath is shortenNotePath of the resolved note and the alias and
   the display text are inserted as they are. *)
C11_MarkupShapes ==
    (log.outcome = "done" /\ log.cmd # "addDramaticEllipsis") =>
        LET e0 == log.start.editor
            lo == IF e0.anchor < e0.head THEN e0.anchor ELSE e0.head
            hi == IF e0.anchor < e0.head THEN e0.head ELSE e0.anchor
            short == shortenNotePath(log.target, allNotes)
            reference == IF log.alias \in {Null, Undefined, <<>>}
                         THEN <<"[", "[">> \o short \o <<"]", "]">>
                         ELSE <<"[", "[">> \o short \o <<"|">> \o log.alias \o <<"]", "]">>
            section == <<"[", "[">> \o short \o <<"#", "^">> \o log.sectionId \o <<"|">>
                       \o log.selection \o <<"]", "]">>
        IN CASE log.cmd = "addCharacterReference" ->
                  editor.doc = SubSeq(e0.doc, 1, lo) \o reference
                               \o SubSeq(e0.doc, hi + 1, Len(e0.doc))
             [] log.cmd = "addCharacterDiag" ->
                  editor.doc = SubSeq(e0.doc, 1, e0.head) \o diagOpen \o reference
                               \o diagClose \o SubSeq(e0.doc, e0.head + 1, Len(e0.doc))
             [] log.cmd = "addSectionWikilink" ->
                  /\ editor.doc = SubSeq(e0.doc, 1, lo) \o section
                                  \o SubSeq(e0.doc, hi + 1, Len(e0.doc))
                  /\ log.selection = IF lo = hi THEN replaceThis
                                     ELSE SubSeq(e0.doc, lo + 1, hi)

C11_Witness ==
    /\ log.outcome = "done" /\ log.cmd = "addCharacterReference"
    /\ log.alias = <<"|", "]">>
    /\ log.target = pA
    /\ editor.doc = <<"[", "[", "A", "|", "|", "]", "]", "]">>

----------------------------------------------------------------------------
(* randomSectionId() for the values Math.random() can return, each given by
   the digits of its base-36 fraction; toString(36) writes no trailing zero *)

Base36In == {"0", "i", "z"}

InitRandomId ==
    /\ NotCalled
    /\ fin \in {d \in SeqsUpTo(Base36In, MaxDigits) : d = <<>> \/ d[Len(d)] # "0"}

callRandomSectionId == Returned(randomSectionId(fin))

SpecRandomId == InitRandomId /\ [][callRandomSectionId]_vars

(* C12: for every value of the random source, also one whose base-36 fraction
   has fewer than six digits, randomSectionId() returns exactly six characters
   of [a-z0-9]; so the generated id is never empty. *)
C12_SixCharacters ==
    pc = "returned" => (Len(fout) = 6 /\ Range(fout) \subseteq (Lower \cup Digit))

----------------------------------------------------------------------------
(* Properties of the pool operations *)

(* C13: pool operations keep the order of the pools and of the members of
   each pool: Add Pool and Add Character append at the end, Remove Pool and
   Remove Character delete exactly one element and leave the others in their
   order, Edit Pool and the toggle change only the name or the enabled flag
   of the one pool they act on. *)
C13_OrderPreserved ==
    [][LET p == settings.characterPools
           q == settings'.characterPools
           without(s, i) == SubSeq(s, 1, i - 1) \o SubSeq(s, i + 1, Len(s))
           onlyPool(i, changed) ==
               /\ Len(q) = Len(p)
               /\ \A k \in 1..Len(p) : q[k] = IF k = i THEN changed ELSE p[k]
       IN p # q =>
            CASE pc = "addPool" ->
                    q = p \o <<[name |-> modal.promise, charNotes |-> <<>>,
                                isEnabled |-> TRUE]>>
              [] pc = "removePool" ->
                    \E i \in 1..Len(p) : q = without(p, i)
              [] pc = "editPool" ->
                    \E i \in 1..Len(p) :
                        onlyPool(i, [p[i] EXCEPT !.name = modal.promise])
              [] pc = "addCharacter" ->
                    \E i \in 1..Len(p) :
                        onlyPool(i, [p[i] EXCEPT
                                       !.charNotes = p[i].charNotes \o <<modal.promise>>])
              [] pc = "idle" ->
                    \E i \in 1..Len(p) :
                        \/ onlyPool(i, [p[i] EXCEPT !.isEnabled = ~p[i].isEnabled])
                        \/ \E j \in 1..Len(p[i].charNotes) :
                              onlyPool(i, [p[i] EXCEPT
                                             !.charNotes = without(p[i].charNotes, j)])
              [] OTHER -> FALSE]_vars

C13_Witness ==
    /\ pc = "idle"
    /\ Len(settings.characterPools) = 2
    /\ settings.characterPools[1].name = TestPool
    /\ settings.characterPools[1].charNotes = <<TestNote, pDA>>
    /\ settings.characterPools[2].name = <<"P">>

(* C15: whenever a handler of the settings tab is suspended on a prompt or
   on a save while the settings change, the index a row captured when it was
   rendered still denotes the element the row shows: a confirmed Remove Pool
   removes the pool named in the confirmation dialog, Remove Character and
   Remove Note remove the entry of the clicked row. *)
C15_CapturedIndex ==
    /\ [](\A i \in 1..Len(tab.pools) :
             /\ i <= Len(settings.characterPools)
             /\ tab.pools[i].name = settings.characterPools[i].name
             /\ tab.pools[i].charNotes = settings.characterPools[i].charNotes)
    /\ [](\A i \in 1..Len(tab.notes) :
             /\ i <= Len(settings.sectionNotes)
             /\ tab.notes[i] = settings.sectionNotes[i])
    /\ [](pc = "removePool" =>
             /\ cap \in 1..Len(settings.characterPools)
             /\ settings.characterPools[cap].name = tab.shown)
    /\ [][(pc = "removePool" /\ settings'.characterPools # settings.characterPools)
             => settings'.characterPools = RemoveAt(settings.characterPools, cap)]_vars
    /\ [][(pc = "idle" /\ settings'.sectionNotes # settings.sectionNotes)
             => \E i \in 1..Len(tab.notes) :
                   settings'.sectionNotes = RemoveAt(settings.sectionNotes, i)]_vars
    /\ [][(pc = "idle" /\ Len(settings'.characterPools) = Len(settings.characterPools)
             /\ \E k \in 1..Len(settings.characterPools) :
                   settings'.characterPools[k].charNotes
                       # settings.characterPools[k].charNotes)
             => \E i \in 1..Len(tab.pools) : \E j \in 1..Len(tab.pools[i].charNotes) :
                   settings'.characterPools =
                       [settings.characterPools EXCEPT
                           ![i].charNotes = RemoveAt(tab.pools[i].charNotes, j)]]_vars

C15_Witness ==
    /\ pc = "removePool" /\ Settled /\ modal.promise = True
    /\ tab.pending
    /\ Len(tab.pools) = 1 /\ Len(settings.characterPools) = 2
    /\ tab.shown = TestPool

----------------------------------------------------------------------------
(* Properties of the dialog block *)

(* C14: after a successful addCharacterDiag invoked with the cursor at line
   L and column c, the document holds the blockquote line with the link
   followed by the line of the two quote characters, inserted at the cursor,
   and the cursor is at line L + 1 right behind the opening quote character,
   which is column 3 of the inserted dialogue line. *)
C14_CursorInsideQuotes ==
    (log.cmd = "addCharacterDiag" /\ log.outcome = "done") =>
        LET before == log.start.editor
            p == before.head
            block == diagOpen \o characterLink(log.shortNotePath, log.alias)
                         \o diagClose
        IN /\ editor.doc = SubSeq(before.doc, 1, p) \o block
                             \o SubSeq(before.doc, p + 1, Len(before.doc))
           /\ editor.anchor = editor.head
           /\ getCursor(editor) = [line |-> log.cursor0.line + 1, ch |-> 3]

----------------------------------------------------------------------------
(* Properties of the suggestion prompt *)

(* C16: for a suggestion prompt, in every order of the close event, the
   deferred resolve(null) and the choose callback: once the promise is
   settled it holds the chosen item when the user chose one (never null) and
   null when the user closed the modal without choosing; a closed modal has
   settled its promise or still has its timer armed; the handler receives
   that value and is resumed once for each prompt it opened, only after the
   promise is settled. *)
C16_SuggestOrderings ==
    /\ []((IsSuggest(modal) /\ modal.promise # Pending) =>
             /\ modal.closedBy = "respond" =>
                   (modal.promise = modal.chosen /\ modal.promise # Null)
             /\ modal.closedBy = "cancel" => modal.promise = Null)
    /\ []((IsSuggest(modal) /\ ~modal.open) =>
             (modal.promise # Pending \/ modal.timer))
    /\ [](IsSuggest(log.delivered) =>
             /\ log.delivered.closedBy \in {"respond", "cancel"}
             /\ log.delivered.closedBy = "respond" =>
                   (log.delivered.value = log.delivered.chosen
                    /\ log.delivered.value # Null)
             /\ log.delivered.closedBy = "cancel" => log.delivered.value = Null)
    /\ [](log.resumes = IF pc = "idle" THEN Len(log.prompts)
                        ELSE Len(log.prompts) - 1)
    /\ [][(log'.n = log.n /\ log'.resumes # log.resumes) =>
             (Settled /\ log'.resumes = log.resumes + 1)]_vars

C16_Witness ==
    /\ IsSuggest(modal) /\ modal.closedBy = "respond"
    /\ ~modal.open /\ ~modal.timer
    /\ modal.chosen = pA /\ modal.promise = pA
    /\ log.resumes = 0 /\ Len(log.prompts) = 1

----------------------------------------------------------------------------
(* Properties of the section link *)

(* C17: in a successful addSectionWikilink the link put in the place of the
   selection carries, after "#^", the same id that follows "^" in the line
   appended to the target note, and after "|" the same text that stands in
   front of the anchor; the target note gains exactly that one line behind
   what it held (and the separator), every other note keeps its content, and
   an invocation that has not succeeded has appended nothing. *)
C17_LinkMatchesAnchor ==
    log.cmd = "addSectionWikilink" =>
        IF log.outcome = "done"
        THEN LET before == log.start.editor
                 I == log.sectionId
                 S == log.selection
                 anchorLine == S \o <<" ", "^">> \o I \o <<"\n">>
                 now == contents[log.target]
                 kept == SubSeq(now, 1, Len(now) - Len(anchorLine))
                 was == log.start.contents[log.target]
             IN /\ editor.doc =
                      SubSeq(before.doc, 1, selFrom(before))
                          \o <<"[", "[">> \o log.shortNotePath \o <<"#", "^">> \o I
                          \o <<"|">> \o S \o <<"]", "]">>
                          \o SubSeq(before.doc, selTo(before) + 1, Len(before.doc))
                /\ Len(now) >= Len(anchorLine)
                /\ SubSeq(now, Len(now) - Len(anchorLine) + 1, Len(now)) = anchorLine
                /\ kept \in {<<>>, was \o settings.sectionSeparator,
                             trimEnd(was) \o settings.sectionSeparator}
                /\ \A f \in DOMAIN contents :
                      f # log.target => contents[f] = log.start.contents[f]
        ELSE contents = log.start.contents

C17_Witness ==
    /\ log.cmd = "addSectionWikilink" /\ log.outcome = "done"
    /\ log.sectionId = <<"P">> /\ log.selection = <<"x", "y">>
    /\ log.target = pA
    /\ log.start.contents[pA] = <<"x", " ">>
    /\ contents[pA] = <<"x">> \o settings.sectionSeparator
                        \o <<"x", "y", " ", "^", "P", "\n">>

====
